---- MODULE Spec2Model ----
(***************************************************************************)
(* A model of sagemaker.base_predictor.Predictor                           *)
(* (src/src/sagemaker/base_predictor.py).                                  *)
(*                                                                         *)
(* The Predictor is a client of a remote service.  Every public method is  *)
(* one action; the action runs the whole method, records the calls that    *)
(* the method makes on its collaborators (session, runtime client,         *)
(* serializer, deserializer) in `calls`, and the way the method ended in   *)
(* `outcome`.  Which remote calls fail is an input of the action.          *)
(*                                                                         *)
(* Three specifications share the variables:                               *)
(*   SpecPredict          predict and the content_type / accept setters    *)
(*   Spec                 update_endpoint (the memoized names, the service)*)
(*   SpecUpdatePredictor  update_predictor                                 *)
(* predict and update_predictor write no field of the Predictor and read   *)
(* only fields that update_endpoint never writes, so the three do not      *)
(* interact.                                                               *)
(***************************************************************************)
EXTENDS Integers, Sequences, FiniteSets, TLC

VARIABLES
    component_name,         \* self.component_name
    serializer,             \* self.serializer
    deserializer,           \* self.deserializer
    _endpoint_config_name,  \* self._endpoint_config_name
    _model_names,           \* self._model_names
    _context,               \* self._context
    _content_type,          \* self._content_type
    _accept,                \* self._accept
    service,                \* the remote service: the endpoint and its configurations
    clock,                  \* the time stamp name_from_base appends
    op,                     \* the last method invoked, with its arguments
    calls,                  \* the collaborator calls the last method dispatched, in order
    outcome,                \* how the last method ended: a return or a raise
    threads                 \* the threads that run _get_model_names step by step

fields == <<component_name, serializer, deserializer, _endpoint_config_name,
            _model_names, _context, _content_type, _accept>>
vars == <<component_name, serializer, deserializer, _endpoint_config_name,
          _model_names, _context, _content_type, _accept,
          service, clock, op, calls, outcome, threads>>

----------------------------------------------------------------------------
(* Python values *)

\* None, and a value that is present.
None == [none |-> TRUE]
Some(v) == [some |-> v]

\* Truth value of an Optional[str] / Optional[int] (None, "" and 0 are false).
TruthyStr(o) == o # None /\ o.some # ""
TruthyInt(o) == o # None /\ o.some # 0

\* A MIME value is a str or a tuple of str.
Str(s) == [is_str |-> TRUE, parts |-> <<s>>]
Tuple(t) == [is_str |-> FALSE, parts |-> t]
TruthyMime(o) == o # None /\ (IF o.some.is_str THEN o.some.parts[1] # "" ELSE Len(o.some.parts) > 0)

\* ", ".join(parts)
RECURSIVE Join(_)
Join(parts) ==
    IF Len(parts) = 0 THEN ""
    ELSE IF Len(parts) = 1 THEN parts[1]
    ELSE parts[1] \o ", " \o Join(Tail(parts))

\* A dict, and d[k] = v.
EmptyDict == [k \in {} |-> ""]
Put(d, k, v) == [x \in DOMAIN d \cup {k} |-> IF x = k THEN v ELSE d[x]]

\* The elements of a sequence.
Range(seq) == {seq[i] : i \in DOMAIN seq}

\* The number of calls of one api in a log of calls.
RECURSIVE CountApi(_, _)
CountApi(log, api) ==
    IF Len(log) = 0 THEN 0
    ELSE (IF log[1].api = api THEN 1 ELSE 0) + CountApi(Tail(log), api)

\* The position of the first call of one api in a log (0 when there is none).
RECURSIVE IndexOfApi(_, _)
IndexOfApi(log, api) ==
    IF Len(log) = 0 THEN 0
    ELSE IF log[1].api = api THEN 1
    ELSE LET r == IndexOfApi(Tail(log), api) IN IF r = 0 THEN 0 ELSE r + 1

Returned(v) == [kind |-> "return", value |-> v]
Raised(e) == [kind |-> "raise", error |-> e]

endpoint_name == "ep"

----------------------------------------------------------------------------
(* predict *)

\* Serializers and deserializers: their class constants.
IdentitySerializer == [name |-> "IdentitySerializer", CONTENT_TYPE |-> Str("application/octet-stream")]
JSONSerializer == [name |-> "JSONSerializer", CONTENT_TYPE |-> Str("application/json")]
BytesDeserializer == [name |-> "BytesDeserializer", ACCEPT |-> Tuple(<<"*/*">>)]
PandasDeserializer ==
    [name |-> "PandasDeserializer", ACCEPT |-> Tuple(<<"text/csv", "application/json">>)]
\* The serializer and deserializer a Predictor is constructed with.
SerializerPairs == {<<IdentitySerializer, BytesDeserializer>>, <<JSONSerializer, PandasDeserializer>>}

\* The data handed to predict: plain data, or a JumpStartSerializablePayload
\* with its content_type, its accept and the bytes PayloadSerializer packs it to.
PlainData == [jumpstart |-> FALSE, id |-> "x"]
JumpStartPayload(ct, ac, b) ==
    [jumpstart |-> TRUE, id |-> "payload", content_type |-> ct, accept |-> ac, packed |-> b]
JumpStartPayloads ==
    { JumpStartPayload(Some("application/x-text"), Some("application/json;verbose"), "packed-bytes"),
      JumpStartPayload(Some("application/x-text"), None, "packed-bytes"),
      JumpStartPayload(Some(""), Some("application/json;verbose"), "packed-bytes"),
      JumpStartPayload(Some("application/x-text"), Some("application/json;verbose"), "") }
PredictData == {PlainData} \cup JumpStartPayloads

\* initial_args: None or a dict of invoke_endpoint arguments.
InitialArgs ==
    { None,
      Some(EmptyDict),
      Some([ContentType |-> "text/csv"]),
      Some([Accept |-> "text/plain"]),
      Some([EndpointName |-> "other-ep", ContentType |-> "text/csv", Accept |-> "text/plain"]) }

\* target_model, target_variant, inference_id, custom_attributes, component_name.
PredictOptions ==
    { [target_model |-> None, target_variant |-> None, inference_id |-> None,
       custom_attributes |-> None, component_name |-> None],
      [target_model |-> Some("model.tar.gz"), target_variant |-> Some("AllTraffic"),
       inference_id |-> Some("id-1"), custom_attributes |-> Some("trace"),
       component_name |-> Some("ic-2")] }

ComponentNames == {None, Some("ic-1")}

\* What the runtime does with the one invoke_endpoint request: it fails, or it
\* answers with a Body and perhaps a ContentType.
InvokeResults ==
    { [fails |-> TRUE],
      [fails |-> FALSE, response |-> [Body |-> "body"]],
      [fails |-> FALSE, response |-> [Body |-> "body", ContentType |-> "application/json"]] }

\* Predictor.content_type, Predictor.accept (the properties)
content_type == IF TruthyMime(_content_type) THEN _content_type.some ELSE serializer.CONTENT_TYPE
accept == IF TruthyMime(_accept) THEN _accept.some ELSE deserializer.ACCEPT

\* Predictor._get_component_name
_get_component_name == component_name

\* PayloadSerializer(...).serialize(data)
PayloadSerializer_serialize(data) == data.packed

\* self.serializer.serialize(data)
serializer_serialize(data) == [by |-> serializer.name, of |-> data.id]

\* The Body of the request: the packed payload unless it is empty or absent.
RequestBody(data, jumpstart_serialized_data) ==
    IF data.jumpstart /\ TruthyStr(jumpstart_serialized_data)
    THEN [use_serializer |-> FALSE, body |-> [by |-> "PayloadSerializer", bytes |-> jumpstart_serialized_data.some]]
    ELSE [use_serializer |-> TRUE, body |-> serializer_serialize(data)]

\* The ContentType of the request when initial_args gives none.
\* Mutant: the payload's value is not looked at.
ResolveContentTypeNoPayload(data, jumpstart_content_type) ==
    IF content_type.is_str THEN content_type.parts[1] ELSE Join(content_type.parts)

ResolveContentType(data, jumpstart_content_type) ==
    IF data.jumpstart /\ TruthyStr(jumpstart_content_type)
    THEN jumpstart_content_type.some
    ELSE IF content_type.is_str THEN content_type.parts[1] ELSE Join(content_type.parts)

\* The Accept of the request when initial_args gives none.
ResolveAccept(data, jumpstart_accept) ==
    IF data.jumpstart /\ TruthyStr(jumpstart_accept)
    THEN jumpstart_accept.some
    ELSE IF accept.is_str THEN accept.parts[1] ELSE Join(accept.parts)

\* Predictor._create_request_args: the request, and the collaborator calls made
\* while building it.
_create_request_args(data, initial_args, target_model, target_variant, inference_id, custom_attributes) ==
    LET jumpstart_serialized_data == IF data.jumpstart THEN Some(PayloadSerializer_serialize(data)) ELSE None
        jumpstart_content_type == IF data.jumpstart THEN data.content_type ELSE None
        jumpstart_accept == IF data.jumpstart THEN data.accept ELSE None
        log1 == IF data.jumpstart
                THEN <<[api |-> "PayloadSerializer.serialize", data |-> data.id]>>
                ELSE <<>>
        a0 == IF initial_args # None /\ DOMAIN initial_args.some # {} THEN initial_args.some ELSE EmptyDict
        a1 == IF "EndpointName" \notin DOMAIN a0 THEN Put(a0, "EndpointName", endpoint_name) ELSE a0
        a2 == IF "ContentType" \notin DOMAIN a1
              THEN Put(a1, "ContentType", ResolveContentType(data, jumpstart_content_type))
              ELSE a1
        a3 == IF "Accept" \notin DOMAIN a2
              THEN Put(a2, "Accept", ResolveAccept(data, jumpstart_accept))
              ELSE a2
        a4 == IF TruthyStr(target_model) THEN Put(a3, "TargetModel", target_model.some) ELSE a3
        a5 == IF TruthyStr(target_variant) THEN Put(a4, "TargetVariant", target_variant.some) ELSE a4
        a6 == IF TruthyStr(inference_id) THEN Put(a5, "InferenceId", inference_id.some) ELSE a5
        a7 == IF TruthyStr(custom_attributes)
              THEN Put(a6, "CustomAttributes", custom_attributes.some)
              ELSE a6
        b == RequestBody(data, jumpstart_serialized_data)
        log2 == IF b.use_serializer
                THEN Append(log1, [api |-> "serializer.serialize", data |-> data.id])
                ELSE log1
        a8 == IF TruthyStr(_get_component_name)
              THEN Put(a7, "InferenceComponentName", component_name.some)
              ELSE a7
    IN  [args |-> Put(a8, "Body", b.body), calls |-> log2]

\* Predictor._handle_response: the deserializer's call and its result.
_handle_response(response) ==
    LET response_body == response.Body
        ct == IF "ContentType" \in DOMAIN response THEN response.ContentType
              ELSE "application/octet-stream"
    IN  [calls |-> <<[api |-> "deserializer.deserialize", body |-> response_body, content_type |-> ct]>>,
         outcome |-> Returned([by |-> deserializer.name, body |-> response_body, content_type |-> ct])]

\* Mutant of predict: a failed invoke_endpoint is tried a second time.
predict_retry(data, initial_args, options, result) ==
    LET r == _create_request_args(data, initial_args, options.target_model, options.target_variant,
                                  options.inference_id, options.custom_attributes)
        inference_component_name ==
            IF TruthyStr(options.component_name) THEN options.component_name
            ELSE _get_component_name
        request_args == IF TruthyStr(inference_component_name)
                        THEN Put(r.args, "InferenceComponentName", inference_component_name.some)
                        ELSE r.args
        invoke == [api |-> "invoke_endpoint", request |-> request_args]
    IN  IF result.fails
        THEN [calls |-> r.calls \o <<invoke, invoke>>, outcome |-> Raised("ClientError")]
        ELSE LET h == _handle_response(result.response)
             IN  [calls |-> Append(r.calls, invoke) \o h.calls, outcome |-> h.outcome]

\* Predictor.predict
predict(data, initial_args, options, result) ==
    LET r == _create_request_args(data, initial_args, options.target_model, options.target_variant,
                                  options.inference_id, options.custom_attributes)
        inference_component_name ==
            IF TruthyStr(options.component_name) THEN options.component_name
            ELSE _get_component_name
        request_args == IF TruthyStr(inference_component_name)
                        THEN Put(r.args, "InferenceComponentName", inference_component_name.some)
                        ELSE r.args
        invoke == [api |-> "invoke_endpoint", request |-> request_args]
    IN  IF result.fails
        THEN [calls |-> Append(r.calls, invoke), outcome |-> Raised("ClientError")]
        ELSE LET h == _handle_response(result.response)
             IN  [calls |-> Append(r.calls, invoke) \o h.calls, outcome |-> h.outcome]

----------------------------------------------------------------------------
(* The remote service *)

\* No thread is inside _get_model_names.
NoThreads == <<>>

\* A resource name: a base and the time stamps name_from_base appended to it.
Name(base) == [base |-> base, stamps |-> <<>>]
\* The configuration the endpoint points at when the Predictor is constructed.
FirstConfig == Name("cfg")

\* sagemaker.utils.name_from_base: the base with the current time stamp appended.
name_from_base(base, now) == [base |-> base.base, stamps |-> Append(base.stamps, now)]

\* A production variant as the service keeps it: with or without a ModelName.
Variant(model) == [VariantName |-> "AllTraffic", ModelName |-> model]
VariantWithoutModel == [VariantName |-> "AllTraffic"]

\* The service: the configuration the endpoint points at, the production
\* variants of every configuration, and the model of the inference component.
Service(variants, component_model) ==
    [endpoint_config |-> FirstConfig,
     configs |-> [n \in {FirstConfig} |-> variants],
     component_model |-> component_model,
     endpoint_exists |-> TRUE,
     component_exists |-> TRUE,
     deleted_models |-> {},
     contexts |-> <<>>,
     schedules |-> <<>>]

\* The Predictors and services at construction: a model-based endpoint that
\* backs no, one or two models; an inference component with or without a model.
InitialDeployments ==
    { <<None, Service(<<VariantWithoutModel>>, None)>>,
      <<None, Service(<<Variant("model-1")>>, None)>>,
      <<None, Service(<<Variant("model-1"), Variant("model-2")>>, None)>>,
      <<Some("ic-1"), Service(<<VariantWithoutModel>>, Some("model-ic"))>>,
      <<Some("ic-1"), Service(<<VariantWithoutModel>>, None)>> }

\* The state of one method invocation: the memoized fields, the service, the
\* clock, the remote calls dispatched so far, the positions of the remote calls
\* that fail, the exception raised (None while running) and the value returned
\* by the last helper.
Start(fail) ==
    [model_names |-> _model_names, endpoint_config_name |-> _endpoint_config_name,
     service |-> service, clock |-> clock, calls |-> <<>>, fail |-> fail,
     raised |-> None, ret |-> None]

Raise(m, error) == [m EXCEPT !.raised = Some(error)]

\* The service refuses a call that names a resource it does not have.
ServiceRejects(svc, call) ==
    \/ /\ call.api = "describe_endpoint_config"
       /\ call.EndpointConfigName \notin DOMAIN svc.configs
    \/ /\ call.api = "create_endpoint_config_from_existing"
       /\ call.existing_config_name \notin DOMAIN svc.configs
    \/ /\ call.api = "delete_endpoint_config"
       /\ call.endpoint_config_name \notin DOMAIN svc.configs
    \/ /\ call.api \in {"describe_endpoint", "update_endpoint", "delete_endpoint"}
       /\ ~svc.endpoint_exists
    \/ /\ call.api \in {"describe_inference_component", "delete_inference_component",
                         "update_inference_component"}
       /\ ~svc.component_exists
    \/ /\ call.api = "delete_model"
       /\ call.model_name \in svc.deleted_models

\* What a call that succeeds does to the service.
ServiceApply(svc, call) ==
    IF call.api = "create_endpoint_config_from_existing"
    THEN [svc EXCEPT !.configs =
            [n \in DOMAIN svc.configs \cup {call.new_config_name} |->
                IF n = call.new_config_name
                THEN IF call.new_production_variants # None
                     THEN [i \in DOMAIN call.new_production_variants.some |->
                              Variant(call.new_production_variants.some[i].ModelName)]
                     ELSE svc.configs[call.existing_config_name]
                ELSE svc.configs[n]]]
    ELSE IF call.api = "update_endpoint"
    THEN [svc EXCEPT !.endpoint_config = call.endpoint_config_name]
    ELSE IF call.api = "delete_endpoint_config"
    THEN [svc EXCEPT !.configs = [n \in DOMAIN svc.configs \ {call.endpoint_config_name} |->
                                     svc.configs[n]]]
    ELSE IF call.api = "delete_endpoint"
    THEN [svc EXCEPT !.endpoint_exists = FALSE]
    ELSE IF call.api = "delete_inference_component"
    THEN [svc EXCEPT !.component_exists = FALSE]
    ELSE IF call.api = "delete_model"
    THEN [svc EXCEPT !.deleted_models = @ \cup {call.model_name}]
    ELSE svc

\* One remote call: it is dispatched, and it fails (the error is raised) or
\* takes effect.
Dispatch(m, call) ==
    LET sent == [m EXCEPT !.calls = Append(@, call)]
    IN  IF Len(sent.calls) \in m.fail \/ ServiceRejects(m.service, call)
        THEN Raise(sent, "ClientError")
        ELSE [sent EXCEPT !.service = ServiceApply(m.service, call)]

\* Predictor.__init__, for the predict specification.
InitPredict ==
    /\ component_name \in ComponentNames
    /\ \E pair \in SerializerPairs : serializer = pair[1] /\ deserializer = pair[2]
    /\ _endpoint_config_name = None
    /\ _model_names = None
    /\ _context = None
    /\ _content_type = None
    /\ _accept = None
    /\ service = Service(<<Variant("model-1")>>, Some("model-ic"))
    /\ clock = 0
    /\ op = [name |-> "__init__"]
    /\ calls = <<>>
    /\ outcome = Returned(None)
    /\ threads = NoThreads

\* One call of predict with inputs of the given sets.
PredictWith(datas, argsets, optionsets, results) ==
    \E data \in datas, initial_args \in argsets, options \in optionsets, result \in results :
        LET r == predict(data, initial_args, options, result)
        IN  /\ op' = [name |-> "predict", data |-> data, initial_args |-> initial_args,
                      options |-> options, result |-> result]
            /\ calls' = r.calls
            /\ outcome' = r.outcome
            /\ UNCHANGED <<fields, service, clock, threads>>

Predict == PredictWith(PredictData, InitialArgs, PredictOptions, InvokeResults)

\* The content_type setter.
SetContentType ==
    \E val \in {"text/libsvm"} :
        /\ _content_type' = Some(Str(val))
        /\ op' = [name |-> "content_type.setter", val |-> val]
        /\ calls' = <<>>
        /\ outcome' = Returned(None)
        /\ UNCHANGED <<component_name, serializer, deserializer, _endpoint_config_name,
                       _model_names, _context, _accept, service, clock, threads>>

\* The accept setter.
SetAccept ==
    \E val \in {"application/x-npy"} :
        /\ _accept' = Some(Str(val))
        /\ op' = [name |-> "accept.setter", val |-> val]
        /\ calls' = <<>>
        /\ outcome' = Returned(None)
        /\ UNCHANGED <<component_name, serializer, deserializer, _endpoint_config_name,
                       _model_names, _context, _content_type, service, clock, threads>>

NextPredict == Predict \/ SetContentType \/ SetAccept

SpecPredict == InitPredict /\ [][NextPredict]_vars

----------------------------------------------------------------------------
(* update_endpoint *)

\* Predictor._get_endpoint_config_name
\* Mutant: the cached name is not looked at.
_get_endpoint_config_name_uncached(m) ==
    LET d == Dispatch(m, [api |-> "describe_endpoint", EndpointName |-> endpoint_name])
    IN  IF d.raised # None THEN d
        ELSE [d EXCEPT !.endpoint_config_name = Some(d.service.endpoint_config),
                       !.ret = d.service.endpoint_config]

_get_endpoint_config_name(m) ==
    IF m.endpoint_config_name # None
    THEN [m EXCEPT !.ret = m.endpoint_config_name.some]
    ELSE LET d == Dispatch(m, [api |-> "describe_endpoint", EndpointName |-> endpoint_name])
         IN  IF d.raised # None THEN d
             ELSE [d EXCEPT !.endpoint_config_name = Some(d.service.endpoint_config),
                            !.ret = d.service.endpoint_config]

\* The ModelName of every production variant that has one.
RECURSIVE ModelNamesOf(_)
ModelNamesOf(production_variants) ==
    IF Len(production_variants) = 0 THEN <<>>
    ELSE (IF "ModelName" \in DOMAIN production_variants[1]
          THEN <<production_variants[1].ModelName>> ELSE <<>>)
         \o ModelNamesOf(Tail(production_variants))

\* Predictor._get_model_names
_get_model_names(m) ==
    IF m.model_names # None
    THEN [m EXCEPT !.ret = m.model_names.some]
    ELSE LET m1 == [m EXCEPT !.model_names = Some(<<>>)]
         IN  IF TruthyStr(_get_component_name)
             THEN LET d == Dispatch(m1, [api |-> "describe_inference_component",
                                         name |-> _get_component_name.some])
                      names == IF d.service.component_model # None
                               THEN <<d.service.component_model.some>> ELSE <<>>
                  IN  IF d.raised # None THEN d
                      ELSE [d EXCEPT !.model_names = Some(names), !.ret = names]
             ELSE LET e == _get_endpoint_config_name(m1)
                      d == Dispatch(e, [api |-> "describe_endpoint_config",
                                        EndpointConfigName |-> e.ret])
                      names == ModelNamesOf(d.service.configs[e.ret])
                  IN  IF e.raised # None THEN e
                      ELSE IF d.raised # None THEN d
                      ELSE [d EXCEPT !.model_names = Some(names), !.ret = names]

\* sagemaker.session.production_variant
production_variant(model_name, instance_type, initial_instance_count, accelerator_type, managed_instance_scaling) ==
    [ModelName |-> model_name, InstanceType |-> instance_type,
     InitialInstanceCount |-> initial_instance_count, VariantName |-> "AllTraffic",
     AcceleratorType |-> accelerator_type, ManagedInstanceScaling |-> managed_instance_scaling]

\* The arguments of update_endpoint.
UpdateEndpointArgs ==
    { [initial_instance_count |-> c, instance_type |-> t, accelerator_type |-> am[1],
       model_name |-> am[2], max_instance_count |-> None, min_instance_count |-> None,
       tags |-> None, kms_key |-> None, data_capture_config_dict |-> None] :
        c \in {None, Some(0), Some(2)},
        t \in {None, Some("ml.m5.large")},
        am \in {<<None, None>>, <<Some("ml.eia1.medium"), None>>, <<None, Some("model-new")>>} }
    \cup
    { [initial_instance_count |-> Some(2), instance_type |-> Some("ml.m5.large"),
       accelerator_type |-> None, model_name |-> None,
       max_instance_count |-> Some(4), min_instance_count |-> Some(1),
       tags |-> Some("tags"), kms_key |-> Some("key"), data_capture_config_dict |-> None] }

\* The end of update_endpoint: the new configuration is created from the
\* current one, the endpoint is pointed at it, and its name is cached.
\* Mutant: the name cached is the current one.
rotate_endpoint_config_stale(m, args, production_variants) ==
    LET g == _get_endpoint_config_name(m)
        current_endpoint_config_name == g.ret
        new_endpoint_config_name == name_from_base(current_endpoint_config_name, g.clock + 1)
        endpoint_type == IF TruthyStr(_get_component_name) THEN "INFERENCE_COMPONENT_BASED"
                         ELSE "MODEL_BASED"
        c == Dispatch([g EXCEPT !.clock = @ + 1],
                      [api |-> "create_endpoint_config_from_existing",
                       existing_config_name |-> current_endpoint_config_name,
                       new_config_name |-> new_endpoint_config_name,
                       new_tags |-> args.tags, new_kms_key |-> args.kms_key,
                       new_data_capture_config_dict |-> args.data_capture_config_dict,
                       new_production_variants |-> production_variants,
                       endpoint_type |-> endpoint_type])
        u == Dispatch(c, [api |-> "update_endpoint", endpoint_name |-> endpoint_name,
                          endpoint_config_name |-> new_endpoint_config_name])
    IN  IF g.raised # None THEN g
        ELSE IF c.raised # None THEN c
        ELSE IF u.raised # None THEN u
        ELSE [u EXCEPT !.endpoint_config_name = Some(current_endpoint_config_name), !.ret = None]

rotate_endpoint_config(m, args, production_variants) ==
    LET g == _get_endpoint_config_name(m)
        current_endpoint_config_name == g.ret
        new_endpoint_config_name == name_from_base(current_endpoint_config_name, g.clock + 1)
        endpoint_type == IF TruthyStr(_get_component_name) THEN "INFERENCE_COMPONENT_BASED"
                         ELSE "MODEL_BASED"
        c == Dispatch([g EXCEPT !.clock = @ + 1],
                      [api |-> "create_endpoint_config_from_existing",
                       existing_config_name |-> current_endpoint_config_name,
                       new_config_name |-> new_endpoint_config_name,
                       new_tags |-> args.tags, new_kms_key |-> args.kms_key,
                       new_data_capture_config_dict |-> args.data_capture_config_dict,
                       new_production_variants |-> production_variants,
                       endpoint_type |-> endpoint_type])
        u == Dispatch(c, [api |-> "update_endpoint", endpoint_name |-> endpoint_name,
                          endpoint_config_name |-> new_endpoint_config_name])
    IN  IF g.raised # None THEN g
        ELSE IF c.raised # None THEN c
        ELSE IF u.raised # None THEN u
        ELSE [u EXCEPT !.endpoint_config_name = Some(new_endpoint_config_name), !.ret = None]

\* Predictor.update_endpoint
update_endpoint(args, fail) ==
    LET m1 == _get_model_names(Start(fail))
        current_model_names == m1.ret
        new_variant == \/ TruthyInt(args.initial_instance_count)
                       \/ TruthyStr(args.instance_type)
                       \/ TruthyStr(args.accelerator_type)
                       \/ TruthyStr(args.model_name)
        m2 == IF args.model_name = None THEN m1
              ELSE [m1 EXCEPT !.model_names = Some(<<args.model_name.some>>)]
        model_name == IF args.model_name = None THEN current_model_names[1]
                      ELSE args.model_name.some
        s1 == IF TruthyInt(args.max_instance_count)
              THEN Put(EmptyDict, "MaxInstanceCount", args.max_instance_count.some)
              ELSE EmptyDict
        managed_instance_scaling ==
              IF TruthyInt(args.min_instance_count)
              THEN Put(s1, "MinInstanceCount", args.min_instance_count.some)
              ELSE s1
        production_variant_config ==
              production_variant(model_name, args.instance_type.some,
                                 args.initial_instance_count.some, args.accelerator_type,
                                 IF DOMAIN managed_instance_scaling # {}
                                 THEN Some(managed_instance_scaling) ELSE None)
    IN  IF m1.raised # None THEN m1
        ELSE IF ~new_variant THEN rotate_endpoint_config(m1, args, None)
        ELSE IF args.instance_type = None \/ args.initial_instance_count = None
        THEN Raise(m1, "ValueError: Missing initial_instance_count and/or instance_type")
        ELSE IF args.model_name = None /\ Len(current_model_names) > 1
        THEN Raise(m1, "ValueError: the endpoint has multiple models")
        ELSE IF args.model_name = None /\ Len(current_model_names) = 0
        THEN Raise(m1, "IndexError")
        ELSE rotate_endpoint_config(m2, args, Some(<<production_variant_config>>))

\* The positions of the remote calls of one invocation that fail: none, or one
\* of the at most four calls of update_endpoint.
MaxCalls == 4
FailChoices == {{}} \cup {{i} : i \in 1..MaxCalls}

\* The number of names name_from_base hands out.
MaxClock == 2

\* Predictor.__init__
Init ==
    /\ \E d \in InitialDeployments : component_name = d[1] /\ service = d[2]
    /\ serializer = IdentitySerializer
    /\ deserializer = BytesDeserializer
    /\ _endpoint_config_name = None
    /\ _model_names = None
    /\ _context = None
    /\ _content_type = None
    /\ _accept = None
    /\ clock = 0
    /\ op = [name |-> "__init__"]
    /\ calls = <<>>
    /\ outcome = Returned(None)
    /\ threads = NoThreads

\* A method that ran in the invocation state m ends: its effects on the fields
\* and on the service stay, and the caller sees the return or the exception.
Finish(m) ==
    /\ _model_names' = m.model_names
    /\ _endpoint_config_name' = m.endpoint_config_name
    /\ service' = m.service
    /\ clock' = m.clock
    /\ calls' = m.calls
    /\ outcome' = IF m.raised # None THEN Raised(m.raised.some) ELSE Returned(m.ret)
    /\ threads' = threads

\* One call of update_endpoint with arguments of the set argsets, while fewer
\* than max_clock names were handed out.
UpdateEndpointWith(argsets, max_clock) ==
    /\ clock < max_clock
    /\ \E args \in argsets, fail \in FailChoices :
        /\ op' = [name |-> "update_endpoint", args |-> args, fail |-> fail]
        /\ Finish(update_endpoint(args, fail))
        /\ UNCHANGED <<component_name, serializer, deserializer, _context, _content_type, _accept>>

UpdateEndpoint == UpdateEndpointWith(UpdateEndpointArgs, MaxClock)

----------------------------------------------------------------------------
(* delete_endpoint, delete_predictor, delete_model *)

\* Predictor._delete_endpoint_config
_delete_endpoint_config(m) ==
    LET g == _get_endpoint_config_name(m)
        current_endpoint_config_name == g.ret
    IN  IF g.raised # None THEN g
        ELSE Dispatch(g, [api |-> "delete_endpoint_config",
                          endpoint_config_name |-> current_endpoint_config_name])

\* Predictor.delete_endpoint
\* Mutant: the endpoint is deleted first and its configuration after it.
delete_endpoint_first(m, delete_endpoint_config) ==
    LET e == Dispatch(m, [api |-> "delete_endpoint", endpoint_name |-> endpoint_name])
        c == IF delete_endpoint_config THEN _delete_endpoint_config(e) ELSE e
    IN  IF e.raised # None THEN e
        ELSE [c EXCEPT !.ret = None]

delete_endpoint(m, delete_endpoint_config) ==
    LET c == IF delete_endpoint_config THEN _delete_endpoint_config(m) ELSE m
        e == Dispatch(c, [api |-> "delete_endpoint", endpoint_name |-> endpoint_name])
    IN  IF c.raised # None THEN c
        ELSE [e EXCEPT !.ret = None]

\* Predictor.delete_predictor
\* Mutant: after the inference component the endpoint is deleted as well.
delete_predictor_falls_through(wait, fail) ==
    IF TruthyStr(component_name)
    THEN LET d == Dispatch(Start(fail), [api |-> "delete_inference_component",
                                         name |-> component_name.some, wait |-> wait])
         IN  IF d.raised # None THEN d ELSE delete_endpoint(d, TRUE)
    ELSE delete_endpoint(Start(fail), TRUE)

delete_predictor(wait, fail) ==
    IF TruthyStr(component_name)
    THEN LET d == Dispatch(Start(fail), [api |-> "delete_inference_component",
                                         name |-> component_name.some, wait |-> wait])
         IN  [d EXCEPT !.ret = None]
    ELSE delete_endpoint(Start(fail), TRUE)

\* The error delete_model raises for the models it could not delete.
FailedModelsError(failed_models) ==
    "One or more models cannot be deleted, please retry. \nFailed models: " \o Join(failed_models)

\* The loop of delete_model: every name is tried, a failure is caught and the
\* name is added to failed_models.
RECURSIVE delete_models(_, _, _)
delete_models(m, names, failed_models) ==
    IF Len(names) = 0 THEN [m EXCEPT !.ret = failed_models]
    ELSE LET d == Dispatch(m, [api |-> "delete_model", model_name |-> names[1]])
         IN  IF d.raised # None
             THEN delete_models([d EXCEPT !.raised = None], Tail(names),
                                Append(failed_models, names[1]))
             ELSE delete_models(d, Tail(names), failed_models)

\* Predictor.delete_model
\* Mutant: the error names the last model that failed only.
delete_model_last_failure(fail) ==
    LET g == _get_model_names(Start(fail))
        current_model_names == g.ret
        l == delete_models(g, current_model_names, <<>>)
        failed_models == l.ret
    IN  IF g.raised # None THEN g
        ELSE IF Len(failed_models) > 0
        THEN Raise(l, FailedModelsError(<<failed_models[Len(failed_models)]>>))
        ELSE [l EXCEPT !.ret = None]

delete_model(fail) ==
    LET g == _get_model_names(Start(fail))
        current_model_names == g.ret
        l == delete_models(g, current_model_names, <<>>)
        failed_models == l.ret
    IN  IF g.raised # None THEN g
        ELSE IF Len(failed_models) > 0
        THEN Raise(l, FailedModelsError(failed_models))
        ELSE [l EXCEPT !.ret = None]

\* The positions of the remote calls of delete_model that fail: any of them.
DeleteFailChoices == SUBSET (1..MaxCalls)

DeleteEndpoint ==
    \E delete_endpoint_config \in BOOLEAN, fail \in FailChoices :
        /\ op' = [name |-> "delete_endpoint", delete_endpoint_config |-> delete_endpoint_config, fail |-> fail]
        /\ Finish(delete_endpoint(Start(fail), delete_endpoint_config))
        /\ UNCHANGED <<component_name, serializer, deserializer, _context, _content_type, _accept>>

DeletePredictor ==
    \E wait \in BOOLEAN, fail \in FailChoices :
        /\ op' = [name |-> "delete_predictor", wait |-> wait, fail |-> fail]
        /\ Finish(delete_predictor(wait, fail))
        /\ UNCHANGED <<component_name, serializer, deserializer, _context, _content_type, _accept>>

\* One call of delete_model whose failing calls are one of failsets.
DeleteModelWith(failsets) ==
    \E fail \in failsets :
        /\ op' = [name |-> "delete_model", fail |-> fail]
        /\ Finish(delete_model(fail))
        /\ UNCHANGED <<component_name, serializer, deserializer, _context, _content_type, _accept>>

DeleteModel == DeleteModelWith(DeleteFailChoices)

----------------------------------------------------------------------------
(* update_data_capture_config, enable_data_capture, disable_data_capture *)

\* DataCaptureConfig and its _to_request_dict.
DataCaptureConfig(enable_capture) == [enable_capture |-> enable_capture]
_to_request_dict(data_capture_config) == [EnableCapture |-> data_capture_config.enable_capture]

\* Predictor.update_data_capture_config
update_data_capture_config(data_capture_config, fail) ==
    LET d == Dispatch(Start(fail), [api |-> "describe_endpoint", EndpointName |-> endpoint_name])
        endpoint_desc == [EndpointConfigName |-> d.service.endpoint_config]
        new_config_name == name_from_base(Name(endpoint_name), d.clock + 1)
        data_capture_config_dict ==
            IF data_capture_config # None
            THEN Some(_to_request_dict(data_capture_config.some)) ELSE None
        c == Dispatch([d EXCEPT !.clock = @ + 1],
                      [api |-> "create_endpoint_config_from_existing",
                       existing_config_name |-> endpoint_desc.EndpointConfigName,
                       new_config_name |-> new_config_name,
                       new_tags |-> None, new_kms_key |-> None,
                       new_data_capture_config_dict |-> data_capture_config_dict,
                       new_production_variants |-> None])
        u == Dispatch(c, [api |-> "update_endpoint", endpoint_name |-> endpoint_name,
                          endpoint_config_name |-> new_config_name])
    IN  IF d.raised # None THEN d
        ELSE IF c.raised # None THEN c
        ELSE [u EXCEPT !.ret = None]

\* Predictor.enable_data_capture
enable_data_capture(fail) == update_data_capture_config(Some(DataCaptureConfig(TRUE)), fail)

\* Predictor.disable_data_capture
disable_data_capture(fail) == update_data_capture_config(Some(DataCaptureConfig(FALSE)), fail)

\* The data_capture_config arguments of update_data_capture_config.
DataCaptureConfigs == {None, Some(DataCaptureConfig(TRUE))}

UpdateDataCaptureConfig ==
    /\ clock < MaxClock
    /\ \E data_capture_config \in DataCaptureConfigs, fail \in FailChoices :
        /\ op' = [name |-> "update_data_capture_config", data_capture_config |-> data_capture_config, fail |-> fail]
        /\ Finish(update_data_capture_config(data_capture_config, fail))
        /\ UNCHANGED <<component_name, serializer, deserializer, _context, _content_type, _accept>>

EnableDataCapture ==
    /\ clock < MaxClock
    /\ \E fail \in FailChoices :
        /\ op' = [name |-> "enable_data_capture", fail |-> fail]
        /\ Finish(enable_data_capture(fail))
        /\ UNCHANGED <<component_name, serializer, deserializer, _context, _content_type, _accept>>

DisableDataCapture ==
    /\ clock < MaxClock
    /\ \E fail \in FailChoices :
        /\ op' = [name |-> "disable_data_capture", fail |-> fail]
        /\ Finish(disable_data_capture(fail))
        /\ UNCHANGED <<component_name, serializer, deserializer, _context, _content_type, _accept>>

\* update_endpoint alone.
Next == UpdateEndpoint

Spec == Init /\ [][Next]_vars

\* The three deletions.
NextDelete == DeleteEndpoint \/ DeletePredictor \/ DeleteModel

SpecDelete == Init /\ [][NextDelete]_vars

\* update_endpoint and the three deletions; update_endpoint is called with no
\* argument, with a complete variant, and with a complete variant and a model.
AdminUpdateEndpointArgs ==
    { a \in UpdateEndpointArgs :
        /\ a.accelerator_type = None /\ a.max_instance_count = None
        /\ (a.initial_instance_count = None) = (a.instance_type = None)
        /\ a.initial_instance_count # Some(0)
        /\ a.model_name # None => a.instance_type # None }
\* The number of update_endpoint calls among the deletions.
MaxAdminClock == 1
AdminUpdateEndpoint == UpdateEndpointWith(AdminUpdateEndpointArgs, MaxAdminClock)
AdminDeleteModel == DeleteModelWith(FailChoices)
NextAdmin == AdminUpdateEndpoint \/ DeleteEndpoint \/ DeletePredictor \/ AdminDeleteModel

SpecAdmin == Init /\ [][NextAdmin]_vars

\* update_endpoint and the data capture updates, the calls that succeed only.
Succeeds == outcome'.kind = "return"
NextRotate ==
    \/ UpdateEndpoint /\ Succeeds
    \/ UpdateDataCaptureConfig /\ Succeeds
    \/ EnableDataCapture /\ Succeeds
    \/ DisableDataCapture /\ Succeeds

SpecRotate == Init /\ [][NextRotate]_vars

----------------------------------------------------------------------------
(* Claims about predict *)

\* The request of the invoke_endpoint call the last method dispatched.
DispatchedRequest == calls[IndexOfApi(calls, "invoke_endpoint")].request
HasKey(initial_args, k) == initial_args # None /\ k \in DOMAIN initial_args.some
Render(mime) == IF mime.is_str THEN mime.parts[1] ELSE Join(mime.parts)

\* C1: every predict dispatches exactly one invoke_endpoint request; when the
\* request fails the error reaches the caller, there is no second attempt and
\* the deserializer is not invoked; when it succeeds the deserializer is
\* invoked exactly once, on that response.
C1_OneInvokePerPredict ==
    op.name = "predict" =>
        /\ CountApi(calls, "invoke_endpoint") = 1
        /\ op.result.fails =>
              /\ outcome = Raised("ClientError")
              /\ CountApi(calls, "deserializer.deserialize") = 0
        /\ ~op.result.fails =>
              /\ outcome.kind = "return"
              /\ CountApi(calls, "deserializer.deserialize") = 1
              /\ IndexOfApi(calls, "deserializer.deserialize") = Len(calls)
              /\ calls[Len(calls)].body = op.result.response.Body

\* C1 witness: a predict whose request failed.
C1_Witness ==
    /\ op.name = "predict"
    /\ op.result.fails
    /\ outcome.kind = "raise"
    /\ CountApi(calls, "invoke_endpoint") = 1

\* C2 as stated: ContentType / Accept are the initial_args value, else the
\* (non-empty) value embedded in a pre-packaged payload, else the serializer's /
\* deserializer's default; no other state of the Predictor changes them.
C2_OriginalResolution ==
    op.name = "predict" =>
        /\ DispatchedRequest.ContentType =
              IF HasKey(op.initial_args, "ContentType") THEN op.initial_args.some.ContentType
              ELSE IF op.data.jumpstart /\ op.data.content_type \notin {None, Some("")}
                   THEN op.data.content_type.some
              ELSE Render(serializer.CONTENT_TYPE)
        /\ DispatchedRequest.Accept =
              IF HasKey(op.initial_args, "Accept") THEN op.initial_args.some.Accept
              ELSE IF op.data.jumpstart /\ op.data.accept \notin {None, Some("")}
                   THEN op.data.accept.some
              ELSE Render(deserializer.ACCEPT)

\* C2 amended: ContentType / Accept are the initial_args value when it has the
\* key; else the non-empty value embedded in a pre-packaged payload; else the
\* value assigned through the content_type / accept setter when one was
\* assigned; else the serializer's / deserializer's default (a tuple joined
\* with ", ").
C2_AmendedResolution ==
    op.name = "predict" =>
        /\ DispatchedRequest.ContentType =
              IF HasKey(op.initial_args, "ContentType") THEN op.initial_args.some.ContentType
              ELSE IF op.data.jumpstart /\ op.data.content_type \notin {None, Some("")}
                   THEN op.data.content_type.some
              ELSE IF _content_type # None THEN Render(_content_type.some)
              ELSE Render(serializer.CONTENT_TYPE)
        /\ DispatchedRequest.Accept =
              IF HasKey(op.initial_args, "Accept") THEN op.initial_args.some.Accept
              ELSE IF op.data.jumpstart /\ op.data.accept \notin {None, Some("")}
                   THEN op.data.accept.some
              ELSE IF _accept # None THEN Render(_accept.some)
              ELSE Render(deserializer.ACCEPT)

\* C2 witness: a predict of plain data, without initial_args, after the
\* content_type setter was used: the assigned value is what is sent.
C2_Witness ==
    /\ op.name = "predict"
    /\ ~op.data.jumpstart
    /\ op.initial_args = None
    /\ _content_type # None
    /\ DispatchedRequest.ContentType = _content_type.some.parts[1]
    /\ DispatchedRequest.ContentType # Render(serializer.CONTENT_TYPE)

\* C3 as stated: for a pre-packaged payload the instance serializer is never
\* invoked and the Body is the payload serializer's output, an empty output
\* included.
C3_PayloadBypassesSerializer ==
    (op.name = "predict" /\ op.data.jumpstart) =>
        /\ CountApi(calls, "serializer.serialize") = 0
        /\ DispatchedRequest.Body = [by |-> "PayloadSerializer", bytes |-> op.data.packed]

----------------------------------------------------------------------------
(* Claims about update_endpoint *)

\* An argument that selects a new production variant was supplied.
VariantArgSupplied(args) ==
    \/ args.initial_instance_count # None
    \/ args.instance_type # None
    \/ args.accelerator_type # None
    \/ args.model_name # None

MissingError == Raised("ValueError: Missing initial_instance_count and/or instance_type")
AmbiguousError == Raised("ValueError: the endpoint has multiple models")
NoConfigCall ==
    /\ CountApi(calls, "create_endpoint_config_from_existing") = 0
    /\ CountApi(calls, "update_endpoint") = 0

\* C4 as stated: whenever at least one of initial_instance_count,
\* instance_type, accelerator_type, model_name is supplied (an
\* initial_instance_count of 0 included) and instance_type and
\* initial_instance_count are not both supplied, update_endpoint raises the
\* missing-argument ValueError and dispatches neither
\* create_endpoint_config_from_existing nor update_endpoint.  (Stated for the
\* invocations in which no remote call fails.)
C4_IncompleteArgsRejected ==
    ( /\ op.name = "update_endpoint"
      /\ outcome # Raised("ClientError")
      /\ VariantArgSupplied(op.args)
      /\ (op.args.instance_type = None \/ op.args.initial_instance_count = None) )
    => (outcome = MissingError /\ NoConfigCall)

\* C5 as stated: when update_endpoint builds a new production variant and
\* model_name is omitted, a single backing model becomes the variant's model,
\* more than one backing model raises the ambiguous-configuration ValueError
\* with no configuration call, and for every number of backing models, zero
\* included, the call ends in one of those two ways or in a ValueError.
\* (Stated for the invocations in which no remote call fails.)
C5_ModelNameDefaulting ==
    ( /\ op.name = "update_endpoint"
      /\ outcome # Raised("ClientError")
      /\ op.args.instance_type # None
      /\ op.args.initial_instance_count # None
      /\ op.args.model_name = None )
    => /\ Len(_model_names.some) = 1 =>
            /\ outcome.kind = "return"
            /\ calls[IndexOfApi(calls, "create_endpoint_config_from_existing")]
                   .new_production_variants.some[1].ModelName = _model_names.some[1]
       /\ Len(_model_names.some) > 1 => (outcome = AmbiguousError /\ NoConfigCall)
       /\ outcome.kind = "return" \/ outcome \in {AmbiguousError, MissingError}

\* C6: a successful update_endpoint dispatches
\* create_endpoint_config_from_existing from the current configuration name to
\* a newly generated name, then the session's update_endpoint with that same
\* new name, and then caches the new name; without any of
\* initial_instance_count, instance_type, accelerator_type, model_name the
\* production variants passed are None and the name is still rotated.  An
\* update_endpoint that raises caches no new name.
C6_Step ==
    LET current == IF _endpoint_config_name # None THEN _endpoint_config_name.some
                   ELSE service.endpoint_config
        n == Len(calls')
    IN  /\ (op'.name = "update_endpoint" /\ outcome'.kind = "return") =>
            /\ n >= 2
            /\ CountApi(calls', "create_endpoint_config_from_existing") = 1
            /\ CountApi(calls', "update_endpoint") = 1
            /\ calls'[n - 1].api = "create_endpoint_config_from_existing"
            /\ calls'[n - 1].existing_config_name = current
            /\ calls'[n - 1].new_config_name \notin DOMAIN service.configs
            /\ calls'[n].api = "update_endpoint"
            /\ calls'[n].endpoint_name = endpoint_name
            /\ calls'[n].endpoint_config_name = calls'[n - 1].new_config_name
            /\ _endpoint_config_name' = Some(calls'[n - 1].new_config_name)
            /\ ~VariantArgSupplied(op'.args) => calls'[n - 1].new_production_variants = None
        /\ (op'.name = "update_endpoint" /\ outcome'.kind = "raise") =>
            \/ _endpoint_config_name' = _endpoint_config_name
            \/ _endpoint_config_name = None /\ _endpoint_config_name' = Some(current)
C6_RotatesConfigName == [][C6_Step]_vars

\* C6 witness: an update_endpoint without arguments succeeded; the endpoint and
\* the cache hold the new name.
C6_Witness ==
    /\ op.name = "update_endpoint"
    /\ outcome.kind = "return"
    /\ ~VariantArgSupplied(op.args)
    /\ calls[Len(calls)].api = "update_endpoint"
    /\ _endpoint_config_name = Some(calls[Len(calls)].endpoint_config_name)
    /\ service.endpoint_config = calls[Len(calls)].endpoint_config_name
    /\ service.endpoint_config # FirstConfig

\* C7 as stated: when update_endpoint raises the missing-argument ValueError,
\* that invocation has dispatched no remote call at all, whatever the memoized
\* fields held.
C7_RejectedBeforeAnyCall ==
    (op.name = "update_endpoint" /\ outcome = MissingError) => calls = <<>>

----------------------------------------------------------------------------
(* update_predictor *)

\* ResourceRequirements: with or without a copy count.
ResourceRequirements(copy_count) ==
    [copy_count |-> copy_count, requirements |-> [MinMemoryRequiredInMb |-> 1024]]
Resources == {None, Some(ResourceRequirements(None)), Some(ResourceRequirements(Some(2)))}

\* The arguments of update_predictor.
UpdatePredictorArgs ==
    [model_name : {None, Some("model-new")},
     image_uri : {None, Some("image:latest")},
     model_data : {None, Some("s3://bucket/model.tar.gz")},
     env : {None, Some([KEY |-> "value"])},
     model_data_download_timeout : {None, Some(600)},
     container_startup_health_check_timeout : {None, Some(300)},
     resources : Resources]

\* A value of the specification is false when it is an empty dict or an empty str.
Falsy(key, value) == IF key = "ModelName" THEN value = "" ELSE DOMAIN value = {}

\* The Container of the specification.
container_of(args) ==
    LET c1 == IF TruthyStr(args.image_uri) THEN Put(EmptyDict, "Image", args.image_uri.some)
              ELSE EmptyDict
        c2 == IF args.env # None /\ DOMAIN args.env.some # {}
              THEN Put(c1, "Environment", args.env.some) ELSE c1
    IN  IF TruthyStr(args.model_data) THEN Put(c2, "ArtifactUrl", args.model_data.some) ELSE c2

\* ModelName XOR Container.
\* Mutant: the container fields are filled in although a model name is given.
model_or_container_both(spec, args) ==
    IF TruthyStr(args.model_name)
    THEN Put(Put(spec, "ModelName", args.model_name.some), "Container", container_of(args))
    ELSE Put(spec, "Container", container_of(args))

model_or_container(spec, args) ==
    IF TruthyStr(args.model_name)
    THEN Put(spec, "ModelName", args.model_name.some)
    ELSE Put(spec, "Container", container_of(args))

\* The StartupParameters of the specification.
startup_parameters_of(args) ==
    LET p1 == IF TruthyInt(args.model_data_download_timeout)
              THEN Put(EmptyDict, "ModelDataDownloadTimeoutInSeconds",
                       args.model_data_download_timeout.some)
              ELSE EmptyDict
    IN  IF TruthyInt(args.container_startup_health_check_timeout)
        THEN Put(p1, "ContainerStartupHealthCheckTimeoutInSeconds",
                 args.container_startup_health_check_timeout.some)
        ELSE p1

\* The keys with a false value are deleted from the specification.
prune(spec) == [k \in {x \in DOMAIN spec : ~Falsy(x, spec[x])} |-> spec[k]]

\* The request of update_predictor, for resources that are not None.
update_request(args) ==
    LET s0 == [Container |-> EmptyDict, StartupParameters |-> EmptyDict]
        s1 == IF args.resources # None
              THEN Put(s0, "ComputeResourceRequirements", args.resources.some.requirements)
              ELSE s0
        s2 == model_or_container(s1, args)
        s3 == Put(s2, "StartupParameters", startup_parameters_of(args))
        r0 == [api |-> "update_inference_component",
               inference_component_name |-> component_name,
               specification |-> prune(s3)]
    IN  IF TruthyInt(args.resources.some.copy_count)
        THEN Put(r0, "runtime_config", [CopyCount |-> args.resources.some.copy_count.some])
        ELSE r0

\* update_predictor after its guard.
update_component(args, fail) ==
    IF args.resources = None
    THEN Raise(Start(fail), "AttributeError: 'NoneType' object has no attribute 'copy_count'")
    ELSE Dispatch(Start(fail), update_request(args))

\* Mutant: the component name is not checked.
update_predictor_unguarded(args, fail) == update_component(args, fail)

\* Predictor.update_predictor
update_predictor(args, fail) ==
    IF component_name = None
    THEN Raise(Start(fail), "ValueError: No inference component exists for the specified model")
    ELSE update_component(args, fail)

\* One call of update_predictor with arguments of the set argsets.
UpdatePredictorWith(argsets) ==
    \E args \in argsets, fail \in {{}, {1}} :
        /\ op' = [name |-> "update_predictor", args |-> args]
        /\ Finish(update_predictor(args, fail))
        /\ UNCHANGED <<component_name, serializer, deserializer, _context, _content_type, _accept>>

UpdatePredictor == UpdatePredictorWith(UpdatePredictorArgs)

NextUpdatePredictor == UpdatePredictor

SpecUpdatePredictor == Init /\ [][NextUpdatePredictor]_vars

----------------------------------------------------------------------------
(* Claims about update_predictor *)

NoComponentError == Raised("ValueError: No inference component exists for the specified model")

\* C8: update_predictor on a Predictor without a component name raises the
\* unsupported-operation ValueError whatever the arguments, dispatches no
\* update_inference_component call and leaves the fields of the Predictor as
\* they were.
C8_Step ==
    (op'.name = "update_predictor" /\ component_name = None) =>
        /\ outcome' = NoComponentError
        /\ CountApi(calls', "update_inference_component") = 0
        /\ fields' = fields
C8_NoComponentRejected == [][C8_Step]_vars

\* C8 witness: an update_predictor with a model name and resources was rejected
\* for want of a component name.
C8_Witness ==
    /\ op.name = "update_predictor"
    /\ component_name = None
    /\ op.args.model_name # None
    /\ op.args.resources # None
    /\ outcome = NoComponentError
    /\ calls = <<>>

\* C9: every update_predictor request dispatched with a model name carries
\* ModelName and no Container, whatever image_uri, env and model_data were; and
\* no dispatched request carries a Container or StartupParameters without
\* fields.
C9_ModelNameXorContainer ==
    (op.name = "update_predictor" /\ CountApi(calls, "update_inference_component") > 0) =>
        LET spec == calls[1].specification
        IN  /\ op.args.model_name # None =>
                /\ "ModelName" \in DOMAIN spec
                /\ spec.ModelName = op.args.model_name.some
                /\ "Container" \notin DOMAIN spec
            /\ "Container" \in DOMAIN spec => DOMAIN spec.Container # {}
            /\ "StartupParameters" \in DOMAIN spec => DOMAIN spec.StartupParameters # {}

\* C9 witness: a request was dispatched for a call that gave a model name and
\* an image, an environment and model data.
C9_Witness ==
    /\ op.name = "update_predictor"
    /\ op.args.model_name # None
    /\ op.args.image_uri # None
    /\ op.args.env # None
    /\ op.args.model_data # None
    /\ CountApi(calls, "update_inference_component") = 1
    /\ DOMAIN calls[1].specification = {"ModelName", "ComputeResourceRequirements"}

\* C10 as stated: resources is optional: every update_predictor on a
\* component-scoped Predictor, resources None included, dispatches exactly one
\* update_inference_component request, which carries a runtime_config with
\* CopyCount exactly when resources has a copy count.
C10_ResourcesOptional ==
    (op.name = "update_predictor" /\ component_name # None) =>
        /\ CountApi(calls, "update_inference_component") = 1
        /\ "runtime_config" \in DOMAIN calls[1]
              <=> (op.args.resources # None /\ op.args.resources.some.copy_count # None)
        /\ "runtime_config" \in DOMAIN calls[1]
              => calls[1].runtime_config.CopyCount = op.args.resources.some.copy_count.some

----------------------------------------------------------------------------
(* Claims about the deletions *)

\* The configuration name the Predictor holds as current: the cached one, or
\* the one describe_endpoint reports when none is cached.
CurrentConfigName ==
    IF _endpoint_config_name # None THEN _endpoint_config_name.some ELSE service.endpoint_config

\* C11: delete_predictor on a component-scoped Predictor dispatches exactly one
\* delete_inference_component, for its component, and neither delete_endpoint
\* nor delete_endpoint_config. On a Predictor without a component name it
\* dispatches no delete_inference_component; when it returns it has dispatched
\* delete_endpoint_config for the current configuration and after it
\* delete_endpoint for the endpoint, each once; delete_endpoint is never
\* dispatched without a delete_endpoint_config before it, and not at all when
\* the deletion of the configuration failed.
C11_Step ==
    op'.name = "delete_predictor" =>
        LET ic == IndexOfApi(calls', "delete_endpoint_config")
            ie == IndexOfApi(calls', "delete_endpoint")
        IN  IF TruthyStr(component_name)
            THEN /\ Len(calls') = 1
                 /\ calls'[1].api = "delete_inference_component"
                 /\ calls'[1].name = component_name.some
            ELSE /\ CountApi(calls', "delete_inference_component") = 0
                 /\ CountApi(calls', "delete_endpoint_config") <= 1
                 /\ CountApi(calls', "delete_endpoint") <= 1
                 /\ ic # 0 => calls'[ic].endpoint_config_name = CurrentConfigName
                 /\ ie # 0 => /\ ic # 0 /\ ic < ie
                              /\ calls'[ie].endpoint_name = endpoint_name
                 /\ outcome'.kind = "return" => ic # 0 /\ ie # 0
                 /\ (ic # 0 /\ (ic \in op'.fail \/ ServiceRejects(service, calls'[ic]))) => ie = 0

C11_DeletePredictorDispatch == [][C11_Step]_vars

\* A Predictor without a component name deleted its configuration and then
\* its endpoint.
C11_Witness ==
    /\ op.name = "delete_predictor"
    /\ component_name = None
    /\ outcome.kind = "return"
    /\ Len(calls) >= 2
    /\ calls[Len(calls) - 1].api = "delete_endpoint_config"
    /\ calls[Len(calls)].api = "delete_endpoint"
    /\ ~service.endpoint_exists

\* The positions, in order, of the delete_model calls of a log.
DeletePositions(log) ==
    SelectSeq([i \in 1..Len(log) |-> i], LAMBDA i : log[i].api = "delete_model")

\* The model names of the calls at the positions ps of a log.
ModelsAt(log, ps) == [k \in 1..Len(ps) |-> log[ps[k]].model_name]

\* C12: delete_model, once the backing model names are resolved, attempts the
\* deletion of every name exactly once and in list order, whichever earlier
\* deletions failed; it raises one aggregate error, after all the attempts,
\* exactly when a deletion failed, and the error lists the names whose deletion
\* failed; the models whose deletion succeeded are deleted afterwards.
C12_Step ==
    (op'.name = "delete_model" /\ outcome' # Raised("ClientError")) =>
        LET attempts == DeletePositions(calls')
            failing(i) == i \in op'.fail \/ calls'[i].model_name \in service.deleted_models
            failed == SelectSeq(attempts, failing)
            succeeded == SelectSeq(attempts, LAMBDA i : ~failing(i))
        IN  /\ _model_names' # None
            /\ ModelsAt(calls', attempts) = _model_names'.some
            /\ outcome' = IF Len(failed) > 0
                          THEN Raised(FailedModelsError(ModelsAt(calls', failed)))
                          ELSE Returned(None)
            /\ service'.deleted_models =
                   service.deleted_models \cup {calls'[i].model_name : i \in Range(succeeded)}

C12_DeleteModelAggregates == [][C12_Step]_vars

\* The first of two models was deleted, the second was not, and the error
\* names the second.
C12_Witness ==
    /\ op.name = "delete_model"
    /\ _model_names = Some(<<"model-1", "model-2">>)
    /\ ModelsAt(calls, DeletePositions(calls)) = <<"model-1", "model-2">>
    /\ outcome = Raised(FailedModelsError(<<"model-2">>))
    /\ service.deleted_models = {"model-1"}

----------------------------------------------------------------------------
(* list_monitors *)

\* sagemaker.model_monitor.model_monitoring.DEFAULT_REPOSITORY_NAME
DEFAULT_REPOSITORY_NAME == "sagemaker-model-monitor-analyzer"

\* An image uri is the sequence of its parts; str.endswith looks at the last.
DefaultImageUri == <<"156813124566.dkr.ecr.us-east-1.amazonaws.com", DEFAULT_REPOSITORY_NAME>>
CustomImageUri == <<"123456789012.dkr.ecr.us-east-1.amazonaws.com", "my-monitor">>
endswith(image_uri, suffix) == Len(image_uri) > 0 /\ image_uri[Len(image_uri)] = suffix

\* The monitoring schedules an endpoint can have: the MonitoringType of the
\* summary (None when the key is absent) and the image of the job definition
\* embedded in the schedule (None when there is none).
MonitoringTypes ==
    {None, Some("ModelBias"), Some("ModelExplainability"), Some("DataQuality"), Some("ModelQuality"), Some("Custom")}
ScheduleKinds ==
    [MonitoringType : MonitoringTypes,
     MonitoringJobDefinition : {None, Some(DefaultImageUri), Some(CustomImageUri)}]

\* The number of monitoring schedules of the endpoint.
MaxSchedules == 2
ScheduleNames == <<"schedule-1", "schedule-2", "schedule-3", "schedule-4">>
ScheduleLists == UNION { [1..n -> ScheduleKinds] : n \in 0..MaxSchedules }
Schedules(kinds) ==
    [i \in 1..Len(kinds) |->
        [MonitoringScheduleName |-> ScheduleNames[i],
         MonitoringType |-> kinds[i].MonitoringType,
         MonitoringJobDefinition |-> kinds[i].MonitoringJobDefinition]]

\* The schedule of the service that has the name schedule_name.
ScheduleNamed(svc, schedule_name) ==
    LET i == CHOOSE i \in 1..Len(svc.schedules) : svc.schedules[i].MonitoringScheduleName = schedule_name
    IN  svc.schedules[i]

UnknownMonitoringType == "TypeError: Unknown monitoring type"

\* Predictor._get_model_monitor_class
\* Mutant: the monitoring type is looked at before the embedded job definition.
_get_model_monitor_class_type_first(m, schedule_name, monitoring_type) ==
    IF monitoring_type = Some("ModelBias") THEN [m EXCEPT !.ret = "ModelBiasMonitor"]
    ELSE IF monitoring_type = Some("ModelExplainability")
    THEN [m EXCEPT !.ret = "ModelExplainabilityMonitor"]
    ELSE LET d == Dispatch(m, [api |-> "describe_monitoring_schedule",
                               monitoring_schedule_name |-> schedule_name])
             embedded_job_definition == ScheduleNamed(d.service, schedule_name).MonitoringJobDefinition
             image_uri == embedded_job_definition.some
         IN  IF d.raised # None THEN d
             ELSE IF monitoring_type = Some("DataQuality")
             THEN [d EXCEPT !.ret = "DefaultModelMonitor"]
             ELSE IF monitoring_type = Some("ModelQuality")
             THEN [d EXCEPT !.ret = "ModelQualityMonitor"]
             ELSE IF embedded_job_definition # None
             THEN IF endswith(image_uri, DEFAULT_REPOSITORY_NAME)
                  THEN [d EXCEPT !.ret = "DefaultModelMonitor"]
                  ELSE [d EXCEPT !.ret = "ModelMonitor"]
             ELSE Raise(d, UnknownMonitoringType)

_get_model_monitor_class(m, schedule_name, monitoring_type) ==
    IF monitoring_type = Some("ModelBias") THEN [m EXCEPT !.ret = "ModelBiasMonitor"]
    ELSE IF monitoring_type = Some("ModelExplainability")
    THEN [m EXCEPT !.ret = "ModelExplainabilityMonitor"]
    ELSE LET d == Dispatch(m, [api |-> "describe_monitoring_schedule",
                               monitoring_schedule_name |-> schedule_name])
             embedded_job_definition == ScheduleNamed(d.service, schedule_name).MonitoringJobDefinition
             image_uri == embedded_job_definition.some
         IN  IF d.raised # None THEN d
             ELSE IF embedded_job_definition # None
             THEN IF endswith(image_uri, DEFAULT_REPOSITORY_NAME)
                  THEN [d EXCEPT !.ret = "DefaultModelMonitor"]
                  ELSE [d EXCEPT !.ret = "ModelMonitor"]
             ELSE IF monitoring_type = Some("DataQuality")
             THEN [d EXCEPT !.ret = "DefaultModelMonitor"]
             ELSE IF monitoring_type = Some("ModelQuality")
             THEN [d EXCEPT !.ret = "ModelQualityMonitor"]
             ELSE Raise(d, UnknownMonitoringType)

\* clazz.attach: the monitor object of a schedule, built by the monitor class.
attach(m, clazz, monitor_schedule_name) ==
    [m EXCEPT !.calls = Append(@, [api |-> "attach", clazz |-> clazz,
                                   monitor_schedule_name |-> monitor_schedule_name]),
              !.ret = [clazz |-> clazz, monitor_schedule_name |-> monitor_schedule_name]]

\* The loop of list_monitors over the schedule summaries.
RECURSIVE attach_monitors(_, _, _)
attach_monitors(m, summaries, monitors) ==
    IF Len(summaries) = 0 THEN [m EXCEPT !.ret = monitors]
    ELSE LET schedule_dict == summaries[1]
             schedule_name == schedule_dict.MonitoringScheduleName
             monitoring_type == schedule_dict.MonitoringType
             c == _get_model_monitor_class(m, schedule_name, monitoring_type)
             clazz == c.ret
             a == attach(c, clazz, schedule_name)
         IN  IF c.raised # None THEN c
             ELSE attach_monitors(a, Tail(summaries), Append(monitors, a.ret))

\* Predictor.list_monitors
list_monitors(fail) ==
    LET d == Dispatch(Start(fail), [api |-> "list_monitoring_schedules",
                                    endpoint_name |-> endpoint_name])
        summaries == d.service.schedules
    IN  IF d.raised # None THEN d
        ELSE IF Len(summaries) = 0 THEN [d EXCEPT !.ret = <<>>]
        ELSE attach_monitors(d, summaries, <<>>)

\* Predictor.__init__, on an endpoint with monitoring schedules.
InitMonitors ==
    /\ \E kinds \in ScheduleLists :
          service = [Service(<<Variant("model-1")>>, None) EXCEPT !.schedules = Schedules(kinds)]
    /\ component_name = None
    /\ serializer = IdentitySerializer
    /\ deserializer = BytesDeserializer
    /\ _endpoint_config_name = None
    /\ _model_names = None
    /\ _context = None
    /\ _content_type = None
    /\ _accept = None
    /\ clock = 0
    /\ op = [name |-> "__init__"]
    /\ calls = <<>>
    /\ outcome = Returned(None)
    /\ threads = NoThreads

ListMonitors ==
    \E fail \in FailChoices :
        /\ op' = [name |-> "list_monitors", fail |-> fail]
        /\ Finish(list_monitors(fail))
        /\ UNCHANGED <<component_name, serializer, deserializer, _context, _content_type, _accept>>

NextMonitors == ListMonitors

SpecMonitors == InitMonitors /\ [][NextMonitors]_vars

----------------------------------------------------------------------------
(* Claims about list_monitors *)

\* The monitor class of a schedule by the precedence of the claim, "" when the
\* monitoring type is not recognized.
ClassByPrecedence(schedule) ==
    IF schedule.MonitoringType = Some("ModelBias") THEN "ModelBiasMonitor"
    ELSE IF schedule.MonitoringType = Some("ModelExplainability") THEN "ModelExplainabilityMonitor"
    ELSE IF schedule.MonitoringJobDefinition = Some(DefaultImageUri) THEN "DefaultModelMonitor"
    ELSE IF schedule.MonitoringJobDefinition # None THEN "ModelMonitor"
    ELSE IF schedule.MonitoringType = Some("DataQuality") THEN "DefaultModelMonitor"
    ELSE IF schedule.MonitoringType = Some("ModelQuality") THEN "ModelQualityMonitor"
    ELSE ""

\* C13: when no remote call fails, list_monitors returns the empty list
\* without raising on an endpoint with no schedule; otherwise it returns one
\* monitor per schedule, of the class the precedence gives (bias and
\* explainability by the monitoring type, then a legacy embedded job
\* definition by its image suffix, then DataQuality and ModelQuality by the
\* monitoring type), and when a schedule has no class it raises the
\* unrecognized-monitoring-type error and returns nothing. No
\* describe_monitoring_schedule is dispatched for a bias or explainability
\* schedule.
C13_MonitorPrecedence ==
    op.name = "list_monitors" =>
        LET schedules == service.schedules
            unrecognized == \E i \in 1..Len(schedules) : ClassByPrecedence(schedules[i]) = ""
        IN  /\ outcome # Raised("ClientError") =>
                 outcome = IF unrecognized THEN Raised(UnknownMonitoringType)
                           ELSE Returned([i \in 1..Len(schedules) |->
                                    [clazz |-> ClassByPrecedence(schedules[i]),
                                     monitor_schedule_name |-> schedules[i].MonitoringScheduleName]])
            /\ \A i \in 1..Len(calls) :
                 calls[i].api = "describe_monitoring_schedule" =>
                    ScheduleNamed(service, calls[i].monitoring_schedule_name).MonitoringType
                        \notin {Some("ModelBias"), Some("ModelExplainability")}

\* A DataQuality schedule with a legacy job definition on a custom image was
\* classified as a generic monitor, next to a bias monitor.
C13_Witness ==
    /\ op.name = "list_monitors"
    /\ Len(service.schedules) = 2
    /\ service.schedules[1].MonitoringType = Some("DataQuality")
    /\ service.schedules[1].MonitoringJobDefinition = Some(CustomImageUri)
    /\ service.schedules[2].MonitoringType = Some("ModelBias")
    /\ outcome.kind = "return"
    /\ outcome.value = <<[clazz |-> "ModelMonitor", monitor_schedule_name |-> "schedule-1"],
                         [clazz |-> "ModelBiasMonitor", monitor_schedule_name |-> "schedule-2"]>>

----------------------------------------------------------------------------
(* endpoint_context *)

\* The invocation state of endpoint_context: it has the memoized context too.
StartContext(fail) ==
    [model_names |-> _model_names, endpoint_config_name |-> _endpoint_config_name,
     service |-> service, clock |-> clock, calls |-> <<>>, fail |-> fail,
     raised |-> None, ret |-> None, context |-> _context]

\* The response of describe_endpoint names the ARN of the endpoint.
EndpointArn == "arn:aws:sagemaker:endpoint/" \o endpoint_name

\* Predictor.endpoint_context
\* Mutant: the memoized context is not looked at.
endpoint_context_always_queries(fail) ==
    LET m == StartContext(fail)
        d == Dispatch(m, [api |-> "describe_endpoint", EndpointName |-> endpoint_name])
        endpoint_arn == EndpointArn
        l == Dispatch(d, [api |-> "EndpointContext.list", source_uri |-> endpoint_arn])
        contexts == l.service.contexts
        c == Dispatch(l, [api |-> "EndpointContext.load", context_name |-> contexts[1]])
    IN  IF d.raised # None THEN d
        ELSE IF l.raised # None THEN l
        ELSE IF Len(contexts) # 0
        THEN IF c.raised # None THEN c
             ELSE [c EXCEPT !.context = Some([context_name |-> contexts[1]]),
                            !.ret = Some([context_name |-> contexts[1]])]
        ELSE [l EXCEPT !.ret = l.context]

endpoint_context(fail) ==
    LET m == StartContext(fail)
        d == Dispatch(m, [api |-> "describe_endpoint", EndpointName |-> endpoint_name])
        endpoint_arn == EndpointArn
        l == Dispatch(d, [api |-> "EndpointContext.list", source_uri |-> endpoint_arn])
        contexts == l.service.contexts
        c == Dispatch(l, [api |-> "EndpointContext.load", context_name |-> contexts[1]])
    IN  IF m.context # None THEN [m EXCEPT !.ret = m.context]
        ELSE IF d.raised # None THEN d
        ELSE IF l.raised # None THEN l
        ELSE IF Len(contexts) # 0
        THEN IF c.raised # None THEN c
             ELSE [c EXCEPT !.context = Some([context_name |-> contexts[1]]),
                            !.ret = Some([context_name |-> contexts[1]])]
        ELSE [l EXCEPT !.ret = l.context]

\* The lineage contexts of the endpoint, the newest first.
MaxContexts == 2
ContextNames == <<"context-1", "context-2", "context-3">>
ContextLists == { [i \in 1..n |-> ContextNames[n + 1 - i]] : n \in 0..(MaxContexts - 1) }

\* Predictor.__init__, on an endpoint that has lineage contexts or none.
InitContext ==
    /\ \E d \in InitialDeployments, contexts \in ContextLists :
          /\ component_name = d[1]
          /\ service = [d[2] EXCEPT !.contexts = contexts]
    /\ serializer = IdentitySerializer
    /\ deserializer = BytesDeserializer
    /\ _endpoint_config_name = None
    /\ _model_names = None
    /\ _context = None
    /\ _content_type = None
    /\ _accept = None
    /\ clock = 0
    /\ op = [name |-> "__init__"]
    /\ calls = <<>>
    /\ outcome = Returned(None)
    /\ threads = NoThreads

EndpointContext ==
    \E fail \in FailChoices :
        LET m == endpoint_context(fail)
        IN  /\ op' = [name |-> "endpoint_context", fail |-> fail]
            /\ _context' = m.context
            /\ Finish(m)
            /\ UNCHANGED <<component_name, serializer, deserializer, _content_type, _accept>>

\* The lineage service records one more context for the endpoint.
ContextCreated ==
    /\ Len(service.contexts) < MaxContexts
    /\ service' = [service EXCEPT !.contexts = <<ContextNames[Len(@) + 1]>> \o @]
    /\ op' = [name |-> "context created"]
    /\ calls' = <<>>
    /\ outcome' = Returned(None)
    /\ UNCHANGED <<fields, clock, threads>>

NextContext == EndpointContext \/ ContextCreated

SpecContext == InitContext /\ [][NextContext]_vars

----------------------------------------------------------------------------
(* Claims about endpoint_context *)

\* C14: endpoint_context memoizes a found context only. Once a context is
\* memoized every call returns it, dispatches no remote call and leaves it in
\* place. While none is memoized a call starts with describe_endpoint and
\* goes on with the context lookup; when it returns and the lookup found no
\* context the field is still unset and the call returned None, when the
\* lookup found one the first context is memoized and returned; a call that
\* raises memoizes nothing.
C14_Step ==
    /\ _context # None => _context' = _context
    /\ op'.name = "endpoint_context" =>
        IF _context # None
        THEN calls' = <<>> /\ outcome' = Returned(_context)
        ELSE /\ Len(calls') >= 1
             /\ calls'[1].api = "describe_endpoint"
             /\ Len(calls') >= 2 => calls'[2].api = "EndpointContext.list"
             /\ outcome'.kind = "return" =>
                  /\ Len(calls') >= 2
                  /\ _context' = IF Len(service.contexts) = 0 THEN None
                                 ELSE Some([context_name |-> service.contexts[1]])
                  /\ outcome'.value = _context'
             /\ outcome'.kind = "raise" => _context' = None

C14_MemoizesFoundContext == [][C14_Step]_vars

\* A memoized context was returned without a remote call although the newest
\* context of the endpoint is another one by now.
C14_Witness ==
    /\ op.name = "endpoint_context"
    /\ _context # None
    /\ calls = <<>>
    /\ outcome = Returned(_context)
    /\ service.contexts[1] # _context.some.context_name

----------------------------------------------------------------------------
(* Claims about the memoized names *)

\* The describe calls of a log that resolve the backing model names.
ModelDescribes(log) ==
    CountApi(log, "describe_endpoint_config") + CountApi(log, "describe_inference_component")

\* C15: in any sequence of update_endpoint, delete_endpoint, delete_predictor
\* and delete_model calls, a call dispatches at most one describe_endpoint and
\* at most one describe for the model names; once the configuration name is
\* cached no call dispatches describe_endpoint and the name stays cached, and
\* only update_endpoint changes it; once the model names are cached no call
\* dispatches a describe for them and they stay cached, and only
\* update_endpoint changes them.
C15_Step ==
    op'.name \in {"update_endpoint", "delete_endpoint", "delete_predictor", "delete_model"} =>
        /\ CountApi(calls', "describe_endpoint") <= 1
        /\ ModelDescribes(calls') <= 1
        /\ _endpoint_config_name # None =>
             /\ CountApi(calls', "describe_endpoint") = 0
             /\ _endpoint_config_name' # None
             /\ _endpoint_config_name' # _endpoint_config_name => op'.name = "update_endpoint"
        /\ _model_names # None =>
             /\ ModelDescribes(calls') = 0
             /\ _model_names' # None
             /\ _model_names' # _model_names => op'.name = "update_endpoint"

C15_ResolvedAtMostOnce == [][C15_Step]_vars

\* update_endpoint cached a new configuration name and a model name, and a
\* later delete_endpoint used the cached name without a describe_endpoint.
C15_Witness ==
    /\ op.name = "delete_endpoint"
    /\ _endpoint_config_name # None
    /\ _endpoint_config_name # Some(FirstConfig)
    /\ _model_names = Some(<<"model-new">>)
    /\ CountApi(calls, "describe_endpoint") = 0
    /\ CountApi(calls, "delete_endpoint_config") = 1
    /\ outcome.kind = "return"

----------------------------------------------------------------------------
(* list_related_models, and every public operation together *)

\* The responses of list_inference_components: an empty dict, the inference
\* components, the inference components and a NextToken.
ListResponses ==
    { EmptyDict,
      [InferenceComponents |-> <<"ic-1">>],
      [InferenceComponents |-> <<"ic-1">>, NextToken |-> "token"] }

\* Predictor.list_related_models
list_related_models(response_dict, fail) ==
    LET d == Dispatch(Start(fail), [api |-> "list_inference_components",
                                    endpoint_name_equals |-> endpoint_name])
    IN  IF d.raised # None THEN d
        ELSE IF DOMAIN response_dict = {} THEN [d EXCEPT !.ret = <<EmptyDict, None>>]
        ELSE [d EXCEPT !.ret = <<response_dict.InferenceComponents,
                                 IF "NextToken" \in DOMAIN response_dict
                                 THEN Some(response_dict.NextToken) ELSE None>>]

ListRelatedModels ==
    \E response_dict \in ListResponses, fail \in {{}, {1}} :
        /\ op' = [name |-> "list_related_models", fail |-> fail]
        /\ Finish(list_related_models(response_dict, fail))
        /\ UNCHANGED <<component_name, serializer, deserializer, _context, _content_type, _accept>>

\* Predictor.__init__, on an endpoint with no, one or more monitoring schedules
\* and one lineage context.
QualitySchedule == [MonitoringType |-> Some("DataQuality"), MonitoringJobDefinition |-> None]
InitAll ==
    /\ \E d \in InitialDeployments, n \in 0..MaxSchedules :
          /\ component_name = d[1]
          /\ service = [d[2] EXCEPT !.schedules = Schedules([i \in 1..n |-> QualitySchedule]),
                                    !.contexts = <<ContextNames[1]>>]
    /\ serializer = IdentitySerializer
    /\ deserializer = BytesDeserializer
    /\ _endpoint_config_name = None
    /\ _model_names = None
    /\ _context = None
    /\ _content_type = None
    /\ _accept = None
    /\ clock = 0
    /\ op = [name |-> "__init__"]
    /\ calls = <<>>
    /\ outcome = Returned(None)
    /\ threads = NoThreads

\* Every public operation, predict and update_predictor with few inputs. The
\* service refuses the calls on resources that are gone; no other call fails,
\* so every operation dispatches all the calls it can.
NoFailure == op'.fail = {}
PlainUpdateEndpointArgs == {a \in AdminUpdateEndpointArgs : a.model_name = None}
NextAll ==
    \/ PredictWith({PlainData}, {None}, PredictOptions, InvokeResults)
    \/ UpdateEndpointWith(PlainUpdateEndpointArgs, MaxAdminClock) /\ NoFailure
    \/ UpdatePredictorWith({a \in UpdatePredictorArgs : \A k \in DOMAIN a : a[k] = None})
    \/ DeleteEndpoint /\ NoFailure
    \/ DeletePredictor /\ NoFailure
    \/ AdminDeleteModel /\ NoFailure
    \/ UpdateDataCaptureConfig /\ NoFailure /\ clock < MaxAdminClock
    \/ ListMonitors /\ NoFailure
    \/ EndpointContext /\ NoFailure
    \/ ListRelatedModels /\ NoFailure

SpecAll == InitAll /\ [][NextAll]_vars

----------------------------------------------------------------------------
(* Claims about the number of remote calls *)

\* The calls that go to the remote service; serializers, deserializers and the
\* attach of a monitor class are local objects.
RemoteApis ==
    {"invoke_endpoint", "describe_endpoint", "describe_endpoint_config",
     "describe_inference_component", "create_endpoint_config_from_existing",
     "update_endpoint", "update_inference_component", "delete_endpoint_config",
     "delete_endpoint", "delete_inference_component", "delete_model",
     "list_inference_components", "list_monitoring_schedules",
     "describe_monitoring_schedule", "EndpointContext.list", "EndpointContext.load"}
RemoteCalls(log) == Cardinality({i \in 1..Len(log) : log[i].api \in RemoteApis})

\* C16 as claimed: every public operation dispatches at most two remote calls.
C16_AtMostTwoCalls == RemoteCalls(calls) <= 2

\* C16, amended: the remote calls of one invocation are bounded by the
\* operation: one for predict, update_predictor and list_related_models;
\* three for endpoint_context, delete_endpoint, delete_predictor and
\* update_data_capture_config; four for update_endpoint; two and one per
\* backing model for delete_model; one and one per monitoring schedule for
\* list_monitors.
C16_CallsPerOperation ==
    /\ op.name \in {"predict", "update_predictor", "list_related_models"} =>
          RemoteCalls(calls) <= 1
    /\ op.name \in {"endpoint_context", "delete_endpoint", "delete_predictor",
                    "update_data_capture_config"} => RemoteCalls(calls) <= 3
    /\ op.name = "update_endpoint" => RemoteCalls(calls) <= 4
    /\ op.name = "delete_model" =>
          RemoteCalls(calls) <= 2 + (IF _model_names = None THEN 0 ELSE Len(_model_names.some))
    /\ op.name = "list_monitors" => RemoteCalls(calls) <= 1 + Len(service.schedules)

\* update_endpoint on a Predictor with nothing memoized dispatched four remote
\* calls and returned.
C16_Witness ==
    /\ op.name = "update_endpoint"
    /\ outcome.kind = "return"
    /\ RemoteCalls(calls) = 4

----------------------------------------------------------------------------
(* _get_model_names called by concurrent threads *)

\* The threads that call an operation of the one Predictor at the same time.
MaxThreads == 2
ThreadIds == 1..MaxThreads

\* Lists are objects: threads.heap has the list every thread created at line
\* 823, threads.ref is the list self._model_names refers to, and _model_names
\* is the content of that list. Every thread has its position in
\* _get_model_names, its local variables and the list it returned.
StartThreads ==
    [ref |-> None,
     heap |-> [t \in ThreadIds |-> <<>>],
     th |-> [t \in ThreadIds |->
               [pc |-> "check_names", endpoint_desc |-> None, config |-> None,
                production_variants |-> <<>>, ret |-> None]]]

\* A thread moves to a position and assigns local variables.
Goto(t, pc) == [threads EXCEPT !.th[t].pc = pc]

\* self._model_names.append(name): the list the field refers to now grows.
AppendToField(thr, name) == [thr EXCEPT !.heap[thr.ref.some] = Append(@, name)]

\* A step of a thread leaves the rest of the Predictor and the service alone.
ThreadFrame(t, position) ==
    /\ op' = [name |-> "_get_model_names", thread |-> t, at |-> position]
    /\ UNCHANGED <<component_name, serializer, deserializer, _context, _content_type,
                   _accept, service, clock, outcome>>

\* Line 820: if self._model_names is not None
CheckNames(t) ==
    /\ threads.th[t].pc = "check_names"
    /\ threads' = Goto(t, IF threads.ref # None THEN "return_names" ELSE "assign_empty")
    /\ UNCHANGED <<_model_names, _endpoint_config_name, calls>>
    /\ ThreadFrame(t, "check_names")

\* Line 823: self._model_names = []
AssignEmpty(t) ==
    /\ threads.th[t].pc = "assign_empty"
    /\ threads' = [Goto(t, IF TruthyStr(_get_component_name) THEN "describe_component"
                           ELSE "check_config")
                       EXCEPT !.ref = Some(t), !.heap[t] = <<>>]
    /\ _model_names' = Some(<<>>)
    /\ UNCHANGED <<_endpoint_config_name, calls>>
    /\ ThreadFrame(t, "assign_empty")

\* Lines 826-829: describe_inference_component, and the append of its ModelName
DescribeComponent(t) ==
    /\ threads.th[t].pc = "describe_component"
    /\ calls' = Append(calls, [api |-> "describe_inference_component", thread |-> t])
    /\ threads' = [Goto(t, "append") EXCEPT !.th[t].production_variants =
                       IF service.component_model # None
                       THEN <<Variant(service.component_model.some)>> ELSE <<>>]
    /\ UNCHANGED <<_model_names, _endpoint_config_name>>
    /\ ThreadFrame(t, "describe_component")

\* Line 810: if self._endpoint_config_name is not None
CheckConfig(t) ==
    /\ threads.th[t].pc = "check_config"
    /\ threads' = Goto(t, IF _endpoint_config_name # None THEN "return_config"
                          ELSE "describe_endpoint")
    /\ UNCHANGED <<_model_names, _endpoint_config_name, calls>>
    /\ ThreadFrame(t, "check_config")

\* Lines 813-815: describe_endpoint
DescribeEndpoint(t) ==
    /\ threads.th[t].pc = "describe_endpoint"
    /\ calls' = Append(calls, [api |-> "describe_endpoint", thread |-> t])
    /\ threads' = [Goto(t, "assign_config") EXCEPT !.th[t].endpoint_desc = Some(service.endpoint_config)]
    /\ UNCHANGED <<_model_names, _endpoint_config_name>>
    /\ ThreadFrame(t, "describe_endpoint")

\* Line 816: self._endpoint_config_name = endpoint_desc["EndpointConfigName"]
AssignConfig(t) ==
    /\ threads.th[t].pc = "assign_config"
    /\ _endpoint_config_name' = threads.th[t].endpoint_desc
    /\ threads' = Goto(t, "return_config")
    /\ UNCHANGED <<_model_names, calls>>
    /\ ThreadFrame(t, "assign_config")

\* Lines 811, 817: return self._endpoint_config_name
ReturnConfig(t) ==
    /\ threads.th[t].pc = "return_config"
    /\ threads' = [Goto(t, "describe_endpoint_config") EXCEPT !.th[t].config = _endpoint_config_name]
    /\ UNCHANGED <<_model_names, _endpoint_config_name, calls>>
    /\ ThreadFrame(t, "return_config")

\* Lines 834-837: describe_endpoint_config
DescribeEndpointConfig(t) ==
    /\ threads.th[t].pc = "describe_endpoint_config"
    /\ calls' = Append(calls, [api |-> "describe_endpoint_config", thread |-> t])
    /\ threads' = [Goto(t, "append") EXCEPT !.th[t].production_variants =
                       service.configs[threads.th[t].config.some]]
    /\ UNCHANGED <<_model_names, _endpoint_config_name>>
    /\ ThreadFrame(t, "describe_endpoint_config")

\* Lines 828-829, 838-841: one round of the loop, self._model_names.append
AppendModel(t) ==
    /\ threads.th[t].pc = "append"
    /\ LET todo == threads.th[t].production_variants
           d == todo[1]
           rest == [threads EXCEPT !.th[t].production_variants = Tail(todo)]
           next == IF "ModelName" \in DOMAIN d THEN AppendToField(rest, d.ModelName) ELSE rest
       IN  IF Len(todo) = 0
           THEN threads' = Goto(t, "return_names") /\ _model_names' = _model_names
           ELSE threads' = next /\ _model_names' = Some(next.heap[next.ref.some])
    /\ UNCHANGED <<_endpoint_config_name, calls>>
    /\ ThreadFrame(t, "append")

\* Lines 821, 830, 842: return self._model_names
ReturnNames(t) ==
    /\ threads.th[t].pc = "return_names"
    /\ threads' = [Goto(t, "done") EXCEPT !.th[t].ret = threads.ref]
    /\ UNCHANGED <<_model_names, _endpoint_config_name, calls>>
    /\ ThreadFrame(t, "return_names")

\* Predictor.__init__, and the threads enter _get_model_names.
InitThreads ==
    /\ \E d \in InitialDeployments : component_name = d[1] /\ service = d[2]
    /\ serializer = IdentitySerializer
    /\ deserializer = BytesDeserializer
    /\ _endpoint_config_name = None
    /\ _model_names = None
    /\ _context = None
    /\ _content_type = None
    /\ _accept = None
    /\ clock = 0
    /\ op = [name |-> "__init__"]
    /\ calls = <<>>
    /\ outcome = Returned(None)
    /\ threads = StartThreads

NextThreads ==
    \E t \in ThreadIds :
        \/ CheckNames(t)
        \/ AssignEmpty(t)
        \/ DescribeComponent(t)
        \/ CheckConfig(t)
        \/ DescribeEndpoint(t)
        \/ AssignConfig(t)
        \/ ReturnConfig(t)
        \/ DescribeEndpointConfig(t)
        \/ AppendModel(t)
        \/ ReturnNames(t)

SpecThreads == InitThreads /\ [][NextThreads]_vars

----------------------------------------------------------------------------
(* Claims about concurrent callers *)

\* The model names the service reports for the Predictor.
ReportedModelNames ==
    IF TruthyStr(component_name)
    THEN IF service.component_model # None THEN <<service.component_model.some>> ELSE <<>>
    ELSE ModelNamesOf(service.configs[service.endpoint_config])

AllThreadsDone == \A t \in ThreadIds : threads.th[t].pc = "done"

\* C17: when the threads that called _get_model_names with nothing memoized
\* have all finished, the list each of them obtained and the cached list are
\* exactly the list of model names the service reports.
C17_NoCorruption ==
    AllThreadsDone =>
        /\ \A t \in ThreadIds : threads.heap[threads.th[t].ret.some] = ReportedModelNames
        /\ _model_names = Some(ReportedModelNames)

----------------------------------------------------------------------------
(* Claims about the cached names after updates and failures *)

\* C18: after any sequence of successful update_endpoint,
\* update_data_capture_config, enable_data_capture and disable_data_capture
\* calls, the cached endpoint-config name, when set, is the configuration the
\* endpoint points to.
C18_CachedConfigIsCurrent ==
    _endpoint_config_name # None => _endpoint_config_name.some = service.endpoint_config

\* C19: when update_endpoint raises after its validation passed, because
\* create_endpoint_config_from_existing or the update_endpoint call of the
\* session failed, the configuration name and the model names that were
\* cached before the call are the same after it.
C19_Step ==
    ( /\ op'.name = "update_endpoint"
      /\ outcome' = Raised("ClientError")
      /\ CountApi(calls', "create_endpoint_config_from_existing") = 1 ) =>
        /\ _endpoint_config_name # None => _endpoint_config_name' = _endpoint_config_name
        /\ _model_names # None => _model_names' = _model_names

C19_FailedUpdateKeepsCache == [][C19_Step]_vars

\* C20: when the describe call that resolves the model names fails, the
\* cached list of model names stays unset.
C20_Step ==
    ( /\ _model_names = None
      /\ outcome' = Raised("ClientError")
      /\ Len(calls') > 0
      /\ calls'[Len(calls')].api \in {"describe_endpoint_config", "describe_inference_component"} ) =>
        _model_names' = None

C20_FailedDescribeKeepsUnset == [][C20_Step]_vars

====
